---- MODULE Spec2Model ----
(***************************************************************************)
(* Model of the IndexedDB promises polyfill (src/polyfill.js): one         *)
(* transaction created by the hooked IDBDatabase.prototype.transaction,    *)
(* its waitUntil() extension, the keep-alive spinner, the deferred request *)
(* queue, and the parts of the IndexedDB host the polyfill relies on (the  *)
(* active flag, the request queue, auto-commit, abort, complete/abort      *)
(* events).                                                                *)
(*                                                                         *)
(* One step of the model is one run of synchronous script (an API call of  *)
(* the user, a promise reaction, an event callback) or one host step.      *)
(* Promise reactions are microtasks: no new task (event delivery, end of   *)
(* the current task) starts while a reaction is runnable.                  *)
(***************************************************************************)
EXTENDS Naturals, Sequences, FiniteSets

\* ---------------------------------------------------------------- bounds
MaxExtend == 2      \* accepted waitUntil() calls
MaxOps == 2         \* hooked request methods called by the user
MaxRequests == 2    \* requests outstanding at the store when script adds one
MaxAccess == 2      \* distinct promises handed out by tx.promise()
MaxSteps == 2       \* continue()/advance() calls on the cursor
MaxSubs == 2        \* listener calls the user makes on one request

\* ------------------------------------------------------------- constants
\* Object store names are sequences of characters.
NameSt == <<"s", "t">>

\* The scope argument of db.transaction(scope): a single name or an array.
ScopeArgs ==
  { [isArray |-> FALSE, names |-> <<NameSt>>],
    [isArray |-> TRUE,  names |-> <<NameSt>>] }

\* Rejection reasons of user supplied awaitables.
Reasons == {"r1"}

\* How a hooked request method behaves at the store when it is dispatched:
\* "ok" succeeds, "fails" gets an error event, "throws" raises synchronously
\* (invalid arguments).
Behaviours == {"ok", "fails", "throws"}

VARIABLES
  _state,           \* tx._state: maybeActive | waiting | committing | finished
  _scope,           \* tx._scope
  _waitingPromise,  \* tx._waitingPromise: 0 (null) or the index of the composite
  _waitingIndex,    \* tx._waitingIndex
  _queue,           \* tx._queue: [isNull, jobs]
  _promise,         \* tx._promise: [id, status, value]
  supplied,         \* the awaitable passed to the i-th accepted waitUntil
  chainedOn,        \* the composite the i-th composite was chained on (0: none)
  handled,          \* the reactions registered by the i-th call have run
  hostActive,       \* the store's active flag of the transaction
  hostPhase,        \* open | committing | committed | aborting | aborted
  hostError,        \* tx.error
  hostScope,        \* the object stores of the transaction
  mode,             \* tx.mode: readwrite | versionchange
  requests,         \* requests outstanding at the store, FIFO
  applied,          \* ids of the operations the store has executed, in order
  dispatched,       \* ids of the operations handed to the store
  deferred,         \* ids of the operations pushed on tx._queue
  nextOp,           \* number of hooked request methods called so far
  abortCause,       \* none | explicit | rejection | exception | request
  opFuture,         \* request._promise of the i-th hooked call: [status, result, error]
  waitResult,       \* outcome of the latest waitUntil() call
  accessed,         \* identities of the promises returned by tx.promise() so far
  handles,          \* the store's request of the i-th call: [readyState, result, error]
  bound,            \* the requests passed to _provide of the i-th call's proxy
  _handlers,        \* proxy._handlers of the i-th call's proxy
  listeners,        \* the event listeners on the store's request of the i-th call
  subLog,           \* every addEventListener/removeEventListener made on the i-th request
  cursor            \* the cursor: [op, request, pos, futures]

vars == << _state, _scope, _waitingPromise, _waitingIndex, _queue, _promise,
           supplied, chainedOn, handled, hostActive, hostPhase, hostError,
           hostScope, mode, requests, applied, dispatched, deferred, nextOp,
           abortCause, opFuture, waitResult, accessed, handles, bound,
           _handlers, listeners, subLog, cursor >>

polyfillVars == << _state, _scope, _waitingPromise, _waitingIndex, _queue,
                   _promise >>
promiseVars == << supplied, chainedOn, handled >>
hostVars == << hostActive, hostPhase, hostError, hostScope, mode, requests,
              applied >>
opVars == << dispatched, deferred, nextOp >>
proxyVars == << bound, _handlers, listeners, subLog >>

\* ------------------------------------------------------------ scope
RECURSIVE JoinNames(_)
\* String(array): the names joined by commas, as a sequence of characters.
JoinNames(names) ==
  IF names = <<>> THEN <<>>
  ELSE IF Len(names) = 1 THEN Head(names)
  ELSE Head(names) \o <<",">> \o JoinNames(Tail(names))

\* A string seen through indexing: each character is a one-character string.
Chars(str) == [i \in 1..Len(str) |-> <<str[i]>>]

\* tx._scope as computed by the hooked transaction().
ScopeOf(arg) ==
  IF ~arg.isArray THEN <<JoinNames(arg.names)>>
  ELSE Chars(JoinNames(arg.names))

SeqRange(s) == {s[i] : i \in 1..Len(s)}

\* ------------------------------------------------------------ host
HostFinished == hostPhase \in {"committed", "aborting", "aborted"}

\* The store accepts a new request: the transaction is active.
HostAccepts == hostActive /\ hostPhase = "open"

RECURSIVE SetToSeq(_)
SetToSeq(S) ==
  IF S = {} THEN <<>>
  ELSE LET x == CHOOSE y \in S : TRUE IN <<x>> \o SetToSeq(S \ {x})

\* tx.db.objectStoreNames for a versionchange transaction, whose scope is
\* every object store of the database.
ObjectStoreNames == SetToSeq(hostScope)

\* var scope = tx.mode === 'versionchange' ? tx.db.objectStoreNames : tx._scope
GetStoreScope == IF mode = "versionchange" THEN ObjectStoreNames ELSE _scope

\* Variant of GetStoreOk without the check for an empty scope.
GetStoreOk_NoEmptyCheck ==
  /\ Len(GetStoreScope) > 0 => GetStoreScope[1] \in hostScope
  /\ ~HostFinished

\* getStore(tx) returns a store (does not throw).
GetStoreOk ==
  /\ Len(GetStoreScope) > 0
  /\ GetStoreScope[1] \in hostScope
  /\ ~HostFinished

\* The transaction was created by the hooked IDBDatabase.prototype.transaction,
\* which sets _state, _promise and the complete/abort listeners; the upgrade
\* transaction of an open request is not.
Hooked == mode # "versionchange"

\* The probe of the state getter, $get.call(getStore(this), -Infinity), succeeds.
ProbeSucceeds == GetStoreOk /\ HostAccepts

\* IDBTransaction.prototype.state, as a value.
State ==
  IF _state = "maybeActive"
  THEN (IF ProbeSucceeds THEN "active" ELSE "inactive")
  ELSE _state

ProbeRequest == [kind |-> "probe", id |-> 0, behav |-> "ok"]
SpinRequest == [kind |-> "spin", id |-> 0, behav |-> "ok"]
OpRequest(id, behav) == [kind |-> "op", id |-> id, behav |-> behav]

\* The requests left at the store by n evaluations of the state getter.
AfterStateGet(reqs, n) ==
  IF _state = "maybeActive" /\ ProbeSucceeds
  THEN reqs \o [i \in 1..n |-> ProbeRequest]
  ELSE reqs

\* ------------------------------------------------------------ promises
RECURSIVE Composite(_, _, _)
\* Settlement of the i-th composite: the supplied awaitable itself, or
\* existing.then(function() { return p; }).
Composite(sup, prev, i) ==
  IF prev[i] = 0 THEN sup[i]
  ELSE LET e == Composite(sup, prev, prev[i])
       IN IF e = "fulfilled" THEN sup[i] ELSE e

Settled(i) == Composite(supplied, chainedOn, i) # "pending"

\* A reaction registered by waitUntil is runnable (a queued microtask).
Runnable(i) == i <= _waitingIndex /\ ~handled[i] /\ Settled(i)
\* The reaction of the cursor hook, cursor._request = request, is queued.
CursorReactionPending ==
  /\ cursor.op # 0
  /\ cursor.request = "undefined"
  /\ opFuture[cursor.op].status = "resolved"

MicrotasksPending ==
  \/ \E i \in 1..MaxExtend : Runnable(i)
  \/ CursorReactionPending

\* ------------------------------------------------------------ request futures
\* request._promise of a hooked call. status: none (the call returned no
\* request), queued (listeners recorded in the proxy's _handlers), pending
\* (listeners attached to the store's request), resolved, rejected.
NoFuture == [status |-> "none", result |-> <<>>, error |-> "none"]
QueuedFuture == [status |-> "queued", result |-> <<>>, error |-> "none"]
PendingFuture == [status |-> "pending", result |-> <<>>, error |-> "none"]
\* resolve(request.result)
ResolvedFuture(result) == [status |-> "resolved", result |-> result, error |-> "none"]
\* reject(request.error)
RejectedFuture(error) == [status |-> "rejected", result |-> <<>>, error |-> error]

\* The store fires the event of request id: a listening future settles.
FireEvent(fut, id, outcome) ==
  IF fut[id].status = "pending" THEN [fut EXCEPT ![id] = outcome] ELSE fut

\* Variant of CancelFutures in which the abort reaches every request made,
\* completed or not.
CancelFutures_All(fut, reqs) ==
  [i \in 1..MaxOps |->
     IF fut[i].status \in {"pending", "resolved"} THEN RejectedFuture("AbortError")
     ELSE fut[i]]

\* The requests outstanding when the transaction aborts get an error event
\* with AbortError.
CancelFutures(fut, reqs) ==
  [i \in 1..MaxOps |->
     IF fut[i].status = "pending" /\ \E k \in 1..Len(reqs) :
                                       reqs[k].kind = "op" /\ reqs[k].id = i
     THEN RejectedFuture("AbortError")
     ELSE fut[i]]

\* Variant of Provide that drops the listeners recorded by the proxy.
Provide_NoReplay(fut, ids) == fut

\* proxy._provide(r) for the jobs run by one drain of the queue: the
\* recorded listeners are attached to the store's request.
Provide(fut, ids) ==
  [i \in 1..MaxOps |->
     IF i \in ids /\ fut[i].status = "queued" THEN PendingFuture ELSE fut[i]]

\* ------------------------------------------------------------ requests
\* The store's IDBRequest of a call: readyState none (no request exists),
\* pending or done; result and error are set by the completion.
NoHandle == [readyState |-> "none", result |-> <<>>, error |-> "none"]
PendingHandle == [readyState |-> "pending", result |-> <<>>, error |-> "none"]
DoneHandle(result, error) == [readyState |-> "done", result |-> result, error |-> error]

\* The store completes request id.
Complete(h, id, result, error) == [h EXCEPT ![id] = DoneHandle(result, error)]

\* The n-th continue()/advance() call is operation MaxOps + n.
StepId(n) == MaxOps + n
IsStep(id) == id > MaxOps

\* The request an operation runs on: a cursor step runs on the request that
\* produced the cursor, every other call on a request of its own.
HandleOf(id) == IF IsStep(id) THEN cursor.op ELSE id

\* The requests outstanding when the transaction aborts complete with
\* AbortError.
CancelHandles(h, reqs) ==
  [i \in 1..MaxOps |->
     IF h[i].readyState = "pending" /\ \E k \in 1..Len(reqs) :
                                        reqs[k].kind = "op" /\ HandleOf(reqs[k].id) = i
     THEN DoneHandle(<<>>, "AbortError")
     ELSE h[i]]

\* The store creates the requests of the operations ids, or sets the
\* cursor's request back to pending for a step.
NewHandles(h, ids) ==
  [i \in 1..MaxOps |-> IF \E j \in ids : HandleOf(j) = i THEN PendingHandle ELSE h[i]]

\* A call of addEventListener or removeEventListener.
AddSub(l) == [op |-> "add", listener |-> l]
RemoveSub(l) == [op |-> "remove", listener |-> l]

\* The two listeners promiseForRequest registers.
PromiseSubs == << AddSub("resolve"), AddSub("reject") >>

\* EventTarget.addEventListener / removeEventListener on the listener list ls.
ApplySub(ls, sub) ==
  IF sub.op = "add"
  THEN (IF \E k \in 1..Len(ls) : ls[k] = sub.listener THEN ls
        ELSE Append(ls, sub.listener))
  ELSE SelectSeq(ls, LAMBDA x : x # sub.listener)

\* Variant of Replay that takes the recorded calls from the end ("pop" for
\* "shift").
RECURSIVE Replay_Lifo(_, _)
Replay_Lifo(subs, ls) ==
  IF subs = <<>> THEN ls
  ELSE Replay_Lifo(SubSeq(subs, 1, Len(subs) - 1), ApplySub(ls, subs[Len(subs)]))

\* while (this._handlers.length) (this._handlers.shift())(request);
RECURSIVE Replay(_, _)
Replay(subs, ls) ==
  IF subs = <<>> THEN ls ELSE Replay(Tail(subs), ApplySub(ls, Head(subs)))

\* No cursor has been opened. op: the call that opened it; request:
\* cursor._request; pos: success events fired on its request; futures: the
\* promises returned by the continue/advance calls.
NoCursor ==
  [op |-> 0, request |-> "undefined", pos |-> 0, steps |-> <<>>, futures |-> <<>>]

\* The call created a proxy: it was queued and is not a cursor step.
HasProxy(id) == id \in deferred /\ ~IsStep(id)

\* Variant of BindProxies that provides a request only to a proxy that has
\* none yet, and then twice.
BindProxies_Twice(b, ids) ==
  [i \in 1..MaxOps |->
     IF i \in ids /\ HasProxy(i) THEN b[i] \o << Len(b[i]) + 1, Len(b[i]) + 2 >>
     ELSE b[i]]

\* proxy._provide(r) in the jobs run by one drain: this._request = r.
BindProxies(b, ids) ==
  [i \in 1..MaxOps |->
     IF i \in ids /\ HasProxy(i) THEN Append(b[i], Len(b[i]) + 1) ELSE b[i]]

\* proxy._provide(r): the recorded listener calls are made on r and the
\* record is emptied.
ProvideListeners(ls, hs, ids) ==
  [i \in 1..MaxOps |->
     IF i \in ids /\ HasProxy(i) THEN Replay(hs[i], ls[i]) ELSE ls[i]]
ProvideHandlers(hs, ids) ==
  [i \in 1..MaxOps |-> IF i \in ids /\ HasProxy(i) THEN <<>> ELSE hs[i]]

\* proxy._request: 0 (null) or the request last passed to _provide.
ProxyRequest(id) == IF bound[id] = <<>> THEN 0 ELSE bound[id][Len(bound[id])]

\* What reading result and error gives: the exception thrown, or the values.
NotReady == [threw |-> "InvalidStateError", result |-> <<>>, error |-> "none"]
Values(result, error) == [threw |-> "none", result |-> result, error |-> error]

\* request.result and request.error of the store's request: InvalidStateError
\* until the request is done.
ReadHandle(h) == IF h.readyState = "done" THEN Values(h.result, h.error) ELSE NotReady

\* Variant of ReadProxy without the "not ready" exception.
ReadProxy_Unchecked(id) ==
  IF ProxyRequest(id) # 0 THEN ReadHandle(handles[id]) ELSE Values(<<>>, "none")

\* get result() / get error() of IDBRequestProxy.
ReadProxy(id) ==
  IF ProxyRequest(id) # 0 THEN ReadHandle(handles[id]) ELSE NotReady

\* ------------------------------------------------------------ initial state
Init ==
  /\ \/ \* tx = db.transaction(arg)
        /\ mode = "readwrite"
        /\ \E arg \in ScopeArgs :
             /\ _scope = ScopeOf(arg)
             /\ hostScope = SeqRange(arg.names)
        /\ _state = "maybeActive"
        /\ _promise = [id |-> 1, status |-> "pending", value |-> "none"]
     \/ \* the upgrade transaction of a database that has no object store yet:
        \* none of the fields the hook sets is defined
        /\ mode = "versionchange"
        /\ _scope = <<>>
        /\ hostScope = {}
        /\ _state = "undefined"
        /\ _promise = [id |-> 0, status |-> "undefined", value |-> "none"]
  /\ _waitingPromise = 0
  /\ _waitingIndex = 0
  /\ _queue = [isNull |-> TRUE, jobs |-> <<>>]
  /\ supplied = [i \in 1..MaxExtend |-> "none"]
  /\ chainedOn = [i \in 1..MaxExtend |-> 0]
  /\ handled = [i \in 1..MaxExtend |-> FALSE]
  /\ hostActive = TRUE
  /\ hostPhase = "open"
  /\ hostError = "null"
  /\ requests = <<>>
  /\ applied = <<>>
  /\ dispatched = {}
  /\ deferred = {}
  /\ nextOp = 0
  /\ abortCause = "none"
  /\ opFuture = [i \in 1..MaxOps |-> NoFuture]
  /\ waitResult = "none"
  /\ accessed = {}
  /\ handles = [i \in 1..MaxOps |-> NoHandle]
  /\ bound = [i \in 1..MaxOps |-> <<>>]
  /\ _handlers = [i \in 1..MaxOps |-> <<>>]
  /\ listeners = [i \in 1..MaxOps |-> <<>>]
  /\ subLog = [i \in 1..MaxOps |-> <<>>]
  /\ cursor = NoCursor

\* ------------------------------------------------------------ waitUntil
\* Variant of ExtendRejected that forgets the finished state.
ExtendRejected_OnlyCommitting(s) == s = "committing"

\* The guard of waitUntil: the states in which it returns a rejected promise.
ExtendRejected(s) == s \in {"committing", "finished"}

\* Variant of IsLive without the generation check.
IsLive_Unchecked(index, live) == TRUE

\* The generation check of the settlement handlers ("Ignore if we were
\* replaced"): the handler acts only if it returns TRUE.
IsLive(index, live) == index = live

\* Variant of Drain that runs one job per probe completion ("if" for "while").
Drain_OneJob(jobs, reqs, ids) ==
  IF jobs = <<>> THEN [jobs |-> <<>>, reqs |-> reqs, ids |-> ids, threw |-> FALSE]
  ELSE LET job == Head(jobs)
       IN IF job.behav = "throws"
          THEN [jobs |-> Tail(jobs), reqs |-> reqs, ids |-> ids, threw |-> TRUE]
          ELSE [jobs |-> Tail(jobs),
                reqs |-> Append(reqs, OpRequest(job.id, job.behav)),
                ids |-> ids \cup {job.id}, threw |-> FALSE]

\* Variant of Drain that takes the jobs from the end of the queue ("pop"
\* for "shift").
RECURSIVE Drain_Lifo(_, _, _)
Drain_Lifo(jobs, reqs, ids) ==
  IF jobs = <<>> THEN [jobs |-> <<>>, reqs |-> reqs, ids |-> ids, threw |-> FALSE]
  ELSE LET job == jobs[Len(jobs)]
           rest == SubSeq(jobs, 1, Len(jobs) - 1)
       IN IF job.behav = "throws"
          THEN [jobs |-> rest, reqs |-> reqs, ids |-> ids, threw |-> TRUE]
          ELSE Drain_Lifo(rest, Append(reqs, OpRequest(job.id, job.behav)),
                          ids \cup {job.id})

RECURSIVE Drain(_, _, _)
\* while ($this._queue.length) ($this._queue.shift())();
\* Each job dispatches its operation to the store; a job that throws ends the
\* loop with the jobs behind it still queued.
Drain(jobs, reqs, ids) ==
  IF jobs = <<>> THEN [jobs |-> <<>>, reqs |-> reqs, ids |-> ids, threw |-> FALSE]
  ELSE LET job == Head(jobs)
       IN IF job.behav = "throws"
          THEN [jobs |-> Tail(jobs), reqs |-> reqs, ids |-> ids, threw |-> TRUE]
          ELSE Drain(Tail(jobs), Append(reqs, OpRequest(job.id, job.behav)),
                     ids \cup {job.id})

\* Variant of SpinsAgain that stops after the first keep-alive probe.
SpinsAgain_Never(st) == FALSE

\* Variant of SpinsAgain that never stops.
SpinsAgain_Always(st) == TRUE

\* if ($this._state === 'waiting') issue the next keep-alive probe.
SpinsAgain(st) == st = "waiting"

\* Variant of Spin that issues two keep-alive probes, as two spinners would.
Spin_Double(jobs, reqs, st, accepts) ==
  LET d == Drain(jobs, reqs, {})
  IN IF d.threw THEN d
     ELSE IF ~SpinsAgain(st) THEN d
     ELSE IF accepts THEN [d EXCEPT !.reqs = d.reqs \o <<SpinRequest, SpinRequest>>]
     ELSE [d EXCEPT !.threw = TRUE]

\* One run of spin(): drain the queue, then probe again while waiting. The
\* probe throws when the store does not accept requests.
Spin(jobs, reqs, st, accepts) ==
  LET d == Drain(jobs, reqs, {})
  IN IF d.threw THEN d
     ELSE IF ~SpinsAgain(st) THEN d
     ELSE IF accepts THEN [d EXCEPT !.reqs = Append(d.reqs, SpinRequest)]
     ELSE [d EXCEPT !.threw = TRUE]

\* Variant of Accept that starts counting again when no settlement handler
\* is outstanding.
Accept_Restart(p, existing) ==
  LET index == IF \A i \in 1.._waitingIndex : handled[i]
               THEN 1 ELSE _waitingIndex + 1
  IN /\ index <= MaxExtend
     /\ _waitingIndex' = index
     /\ _waitingPromise' = index
     /\ supplied' = [supplied EXCEPT ![index] = p]
     /\ chainedOn' = [chainedOn EXCEPT ![index] = IF existing < index THEN existing ELSE 0]
     /\ waitResult' = "waitingPromise"

\* var index = ++this._waitingIndex; this._waitingPromise = p; and the two
\* settlement handlers are registered on it.
Accept(p, existing) ==
  LET index == _waitingIndex + 1
  IN /\ index <= MaxExtend
     /\ _waitingIndex' = index
     /\ _waitingPromise' = index
     /\ supplied' = [supplied EXCEPT ![index] = p]
     /\ chainedOn' = [chainedOn EXCEPT ![index] = existing]
     /\ waitResult' = "waitingPromise"

\* tx.waitUntil(p), p an awaitable that is pending or already settled.
WaitUntil(p) ==
  IF ExtendRejected(State)
  THEN /\ waitResult' = "InvalidStateError"
       /\ UNCHANGED << polyfillVars, promiseVars, hostVars, opVars, abortCause, opFuture, handles, accessed, proxyVars, cursor >>
  ELSE IF _state = "waiting"
  THEN \* p = this._waitingPromise.then(...): a TypeError when it is null
       /\ IF _waitingPromise = 0
          THEN /\ waitResult' = "threw"
               /\ UNCHANGED << _waitingPromise, _waitingIndex, supplied, chainedOn >>
          ELSE Accept(p, _waitingPromise)
       /\ UNCHANGED << _state, _scope, _queue, _promise, handled, hostVars,
                       opVars, abortCause, opFuture, handles, accessed, proxyVars, cursor >>
  ELSE \* newly waiting: start spinning
       LET reqs1 == AfterStateGet(requests, 2)
           s == Spin(<<>>, reqs1, "waiting", HostAccepts)
       IN /\ _state' = "waiting"
          /\ _queue' = [isNull |-> FALSE, jobs |-> <<>>]
          /\ IF ~GetStoreOk \/ s.threw
             THEN /\ requests' = reqs1
                  /\ waitResult' = "threw"
                  /\ UNCHANGED << _waitingPromise, _waitingIndex, supplied,
                                  chainedOn >>
             ELSE /\ requests' = s.reqs
                  /\ Accept(p, 0)
          /\ UNCHANGED << _scope, _promise, handled, hostActive, hostPhase,
                          hostError, hostScope, mode, applied, opVars, abortCause, opFuture, handles, accessed, proxyVars, cursor >>

\* ------------------------------------------------------------ hooked methods
\* Variant of Deferring that also defers once the state is committing.
Deferring_Committing(st) == st \in {"waiting", "committing"}

\* if (tx.state !== 'waiting') call the method, else queue a job.
Deferring(st) == st = "waiting"

\* The body shared by the hooked request methods: call the method or queue
\* a job and return a proxy, then request._promise = promiseForRequest(request).
HookedCall(behav) ==
  LET id == nextOp + 1
      reqs1 == AfterStateGet(requests, 1)
  IN /\ nextOp < MaxOps
     /\ hostScope # {}
     /\ nextOp' = id
     /\ IF ~Deferring(State)
        THEN \* request = method.apply(this, arguments)
             /\ IF HostAccepts /\ behav # "throws"
                THEN /\ requests' = Append(reqs1, OpRequest(id, behav))
                     /\ dispatched' = dispatched \cup {id}
                     /\ opFuture' = [opFuture EXCEPT ![id] = PendingFuture]
                     /\ handles' = NewHandles(handles, {id})
                     /\ listeners' = [listeners EXCEPT ![id] =
                                        ApplySub(ApplySub(<<>>, PromiseSubs[1]), PromiseSubs[2])]
                     /\ subLog' = [subLog EXCEPT ![id] = PromiseSubs]
                ELSE /\ requests' = reqs1
                     /\ UNCHANGED << dispatched, opFuture, handles, listeners, subLog >>
             /\ UNCHANGED << _queue, deferred, _handlers >>
        ELSE \* tx._queue.push(function() { ... }); request = proxy
             /\ _queue' = [_queue EXCEPT !.jobs = Append(@, [id |-> id, behav |-> behav])]
             /\ deferred' = deferred \cup {id}
             /\ opFuture' = [opFuture EXCEPT ![id] = QueuedFuture]
             /\ _handlers' = [_handlers EXCEPT ![id] = PromiseSubs]
             /\ subLog' = [subLog EXCEPT ![id] = PromiseSubs]
             /\ UNCHANGED << handles, listeners >>
             /\ UNCHANGED << requests, dispatched >>
     /\ UNCHANGED << _state, _scope, _waitingPromise, _waitingIndex, _promise,
                     promiseVars, hostActive, hostPhase, hostError, hostScope, mode,
                     applied, abortCause, waitResult, accessed, bound >>

\* A hooked one-shot request method (put, add, get, ...) called by the user.
IssueOp(behav) == HookedCall(behav) /\ UNCHANGED cursor

\* ------------------------------------------------------------ cursors
\* A hooked openCursor/openKeyCursor called by the user (one cursor is
\* followed): the request, or proxy, is remembered for cursor._request.
OpenCursor ==
  /\ cursor.op = 0
  /\ HookedCall("open")
  /\ cursor' = IF opFuture'[nextOp'].status # "none"
               THEN [cursor EXCEPT !.op = nextOp']
               ELSE cursor

\* request._promise.then(function(cursor) { cursor._request = request; })
CursorReaction ==
  /\ CursorReactionPending
  /\ cursor' = [cursor EXCEPT !.request = "set"]
  /\ UNCHANGED << polyfillVars, promiseVars, hostVars, opVars, abortCause,
                  opFuture, waitResult, accessed, handles, proxyVars >>

\* transactionFor(source): an object store has a transaction, an index has
\* an objectStore that has one, and a cursor has neither member.
TransactionFor(source) ==
  IF source \in {"store", "index"} THEN "transaction" ELSE "undefined"

\* A step job is waiting in the queue.
StepQueued == \E k \in 1..Len(_queue.jobs) : _queue.jobs[k].behav = "step"

\* The promise a continue()/advance() call returns: its executor subscribes
\* a success handler on cursor._request, and throws TypeError when that is
\* not set yet.
StepFuture == IF cursor.request = "set" THEN PendingFuture ELSE RejectedFuture("TypeError")

\* Hooked continue()/advance() called by the user on the cursor the request
\* has delivered, with no earlier step outstanding.
StepCursor ==
  LET c == cursor.op
      id == StepId(Len(cursor.futures) + 1)
      reqs1 == AfterStateGet(requests, 1)
      returned == /\ cursor' = [cursor EXCEPT !.futures = Append(@, StepFuture),
                                              !.steps = Append(@, "returned")]
                  /\ IF cursor.request = "set"
                     THEN /\ listeners' = [listeners EXCEPT ![c] = ApplySub(@, AddSub("step"))]
                          /\ subLog' = [subLog EXCEPT ![c] = Append(@, AddSub("step"))]
                     ELSE UNCHANGED << listeners, subLog >>
  IN /\ c # 0
     /\ handles[c].readyState = "done" /\ handles[c].error = "none"
     /\ ~StepQueued
     /\ Len(cursor.steps) < MaxSteps
     /\ IF TransactionFor("cursor") = "undefined"
        THEN \* tx.state with tx undefined: TypeError before anything is done
             /\ cursor' = [cursor EXCEPT !.steps = Append(@, "TypeError")]
             /\ UNCHANGED << requests, dispatched, handles, listeners, subLog,
                             _queue, deferred >>
        ELSE IF ~Deferring(State)
        THEN \* method.apply(this, arguments)
             /\ IF HostAccepts
                THEN /\ requests' = Append(reqs1, OpRequest(id, "step"))
                     /\ dispatched' = dispatched \cup {id}
                     /\ handles' = NewHandles(handles, {id})
                     /\ returned
                ELSE /\ requests' = reqs1
                     /\ cursor' = [cursor EXCEPT !.steps = Append(@, "InvalidStateError")]
                     /\ UNCHANGED << dispatched, handles, listeners, subLog >>
             /\ UNCHANGED << _queue, deferred >>
        ELSE \* tx._queue.push(function() { method.apply($this, $arguments); })
             /\ _queue' = [_queue EXCEPT !.jobs = Append(@, [id |-> id, behav |-> "step"])]
             /\ deferred' = deferred \cup {id}
             /\ returned
             /\ UNCHANGED << requests, dispatched, handles >>
     /\ UNCHANGED << _state, _scope, _waitingPromise, _waitingIndex, _promise,
                     promiseVars, hostActive, hostPhase, hostError, hostScope, mode,
                     applied, nextOp, abortCause, opFuture, waitResult, accessed,
                     bound, _handlers >>

\* The listener calls the user has made so far, on any request.
UserSubs ==
  { c \in (1..MaxOps) \X (1..(2 + MaxSubs + MaxSteps)) :
      c[2] <= Len(subLog[c[1]]) /\ subLog[c[1]][c[2]].listener = "user" }

\* addEventListener / removeEventListener called by the user on the request
\* a hooked method returned: a proxy without a request records the call.
Subscribe(id, sub) ==
  /\ ~IsStep(id)
  /\ subLog[id] # <<>>
  /\ Cardinality(UserSubs) < MaxSubs
  /\ subLog' = [subLog EXCEPT ![id] = Append(@, sub)]
  /\ IF HasProxy(id) /\ ProxyRequest(id) = 0
     THEN /\ _handlers' = [_handlers EXCEPT ![id] = Append(@, sub)]
          /\ UNCHANGED listeners
     ELSE /\ listeners' = [listeners EXCEPT ![id] = ApplySub(@, sub)]
          /\ UNCHANGED _handlers
  /\ UNCHANGED << polyfillVars, promiseVars, hostVars, opVars, abortCause,
                  opFuture, waitResult, accessed, handles, bound, cursor >>

\* tx.state read by the user: on a 'maybeActive' transaction that is active
\* the probe leaves a get request at the store.
StateQuery ==
  /\ _state = "maybeActive"
  /\ ProbeSucceeds
  /\ Len(requests) < MaxRequests
  /\ requests' = Append(requests, ProbeRequest)
  /\ UNCHANGED << polyfillVars, promiseVars, hostActive, hostPhase, hostError,
                  hostScope, mode, applied, opVars, abortCause, opFuture, handles, waitResult, accessed, proxyVars, cursor >>

\* ------------------------------------------------------------ abort
\* tx.abort() on a transaction the store has not finished or started to
\* commit: outstanding requests are cancelled, changes are rolled back,
\* the abort event is queued.
HostAbort(error, cause) ==
  /\ hostPhase' = "aborting"
  /\ hostError' = error
  /\ requests' = <<>>
  /\ applied' = <<>>
  /\ abortCause' = cause

\* abort() throws InvalidStateError unless the transaction is open.
AbortAllowed == hostPhase = "open"

\* tx.abort() called by the user.
UserAbort ==
  /\ AbortAllowed
  /\ HostAbort("null", "explicit")
  /\ opFuture' = CancelFutures(opFuture, requests)
  /\ handles' = CancelHandles(handles, requests)
  /\ UNCHANGED << polyfillVars, promiseVars, hostActive, hostScope, mode, opVars,
                  waitResult, accessed, proxyVars, cursor >>

\* ------------------------------------------------------------ tx.promise()
\* Variant of PromiseResolve that wraps its argument in a new promise.
PromiseResolve_Wrap(x, fresh) == fresh

\* Promise.resolve(x): x itself when x is a promise, else a new promise;
\* fresh is the identity a newly allocated promise gets.
PromiseResolve(x, fresh) == IF x.status = "undefined" THEN fresh ELSE x.id

\* An identity no promise handed out so far has.
FreshId == _promise.id + Cardinality(accessed) + 1

\* tx.promise() called by the user: return Promise.resolve(this._promise).
AccessPromise ==
  /\ Cardinality(accessed) < MaxAccess
  /\ accessed' = accessed \cup {PromiseResolve(_promise, FreshId)}
  /\ UNCHANGED << polyfillVars, promiseVars, hostVars, opVars, abortCause,
                  opFuture, handles, waitResult, proxyVars, cursor >>

\* ------------------------------------------------------------ awaitables
\* A pending awaitable passed to waitUntil settles.
Settle(i, outcome) ==
  /\ supplied[i] = "pending"
  /\ supplied' = [supplied EXCEPT ![i] = outcome]
  /\ UNCHANGED << polyfillVars, chainedOn, handled, hostVars, opVars,
                  abortCause, opFuture, handles, waitResult, accessed, proxyVars, cursor >>

\* this._waitingPromise.then(function() { ... }) of the call with this index:
\* stop spinning, allow auto-commit to proceed.
ThenHandler(index) ==
  /\ IF IsLive(index, _waitingIndex)
     THEN _state' = "committing"
     ELSE UNCHANGED _state
  /\ UNCHANGED << hostPhase, hostError, requests, applied, abortCause, opFuture, handles >>

\* Variant of CatchHandler that never aborts.
CatchHandler_NoAbort(index) ==
  UNCHANGED << _state, hostPhase, hostError, requests, applied, abortCause, opFuture, handles >>

\* Variant of CatchHandler that hands the rejection reason to the abort.
CatchHandler_CarryReason(index) ==
  /\ IF IsLive(index, _waitingIndex) /\ AbortAllowed
     THEN /\ HostAbort(Composite(supplied, chainedOn, index), "rejection")
          /\ opFuture' = CancelFutures(opFuture, requests)
          /\ handles' = CancelHandles(handles, requests)
     ELSE UNCHANGED << hostPhase, hostError, requests, applied, abortCause, opFuture, handles >>
  /\ UNCHANGED _state

\* Variant of CatchHandler that stops the spinner as the then handler does.
CatchHandler_StopWaiting(index) ==
  /\ IF IsLive(index, _waitingIndex)
     THEN _state' = "committing"
     ELSE UNCHANGED _state
  /\ UNCHANGED << hostPhase, hostError, requests, applied, abortCause, opFuture, handles >>

\* Variant of CatchHandler that marks the transaction finished itself when
\* abort() throws.
CatchHandler_MarksFinished(index) ==
  /\ IF IsLive(index, _waitingIndex) /\ AbortAllowed
     THEN /\ HostAbort("null", "rejection")
          /\ opFuture' = CancelFutures(opFuture, requests)
          /\ handles' = CancelHandles(handles, requests)
          /\ UNCHANGED _state
     ELSE /\ _state' = "finished"
          /\ UNCHANGED << hostPhase, hostError, requests, applied, abortCause, opFuture, handles >>

\* this._waitingPromise.catch(function() { ... }) of the call with this index:
\* try { $this.abort(); } catch(_) {}
CatchHandler(index) ==
  /\ IF IsLive(index, _waitingIndex) /\ AbortAllowed
     THEN /\ HostAbort("null", "rejection")
          /\ opFuture' = CancelFutures(opFuture, requests)
          /\ handles' = CancelHandles(handles, requests)
     ELSE UNCHANGED << hostPhase, hostError, requests, applied, abortCause, opFuture, handles >>
  /\ UNCHANGED _state

\* Variant of RunReactions whose then handler runs the queued jobs itself
\* instead of leaving them to the next keep-alive callback.
RunReactions_Flush(i) ==
  /\ Runnable(i)
  /\ handled' = [handled EXCEPT ![i] = TRUE]
  /\ IF Composite(supplied, chainedOn, i) = "fulfilled" /\ IsLive(i, _waitingIndex)
     THEN LET d == Drain(_queue.jobs, requests, {})
          IN /\ _state' = "committing"
             /\ _queue' = [_queue EXCEPT !.jobs = d.jobs]
             /\ requests' = d.reqs
             /\ dispatched' = dispatched \cup d.ids
             /\ opFuture' = Provide(opFuture, d.ids)
             /\ handles' = NewHandles(handles, d.ids)
             /\ UNCHANGED << hostPhase, hostError, applied, abortCause, deferred,
                             nextOp >>
     ELSE /\ IF Composite(supplied, chainedOn, i) = "fulfilled"
             THEN ThenHandler(i)
             ELSE CatchHandler(i)
          /\ UNCHANGED << _queue, opVars >>
  /\ UNCHANGED << _scope, _waitingPromise, _waitingIndex, _promise, supplied,
                  chainedOn, hostActive, hostScope, mode, waitResult, accessed, proxyVars, cursor >>

\* The reactions registered by the i-th accepted waitUntil run, once its
\* composite has settled.
RunReactions(i) ==
  /\ Runnable(i)
  /\ handled' = [handled EXCEPT ![i] = TRUE]
  /\ IF Composite(supplied, chainedOn, i) = "fulfilled"
     THEN ThenHandler(i)
     ELSE CatchHandler(i)
  /\ UNCHANGED << _scope, _waitingPromise, _waitingIndex, _queue, _promise,
                  supplied, chainedOn, hostActive, hostScope, mode, opVars, waitResult, accessed, proxyVars, cursor >>

\* ------------------------------------------------------------ host steps
\* The current task ends: the transaction becomes inactive and, with no
\* request outstanding, starts to commit.
EndTask ==
  /\ hostActive
  /\ ~MicrotasksPending
  /\ hostActive' = FALSE
  /\ hostPhase' = IF hostPhase = "open" /\ requests = <<>> THEN "committing"
                  ELSE hostPhase
  /\ UNCHANGED << polyfillVars, promiseVars, hostError, hostScope, mode, requests,
                  applied, opVars, abortCause, opFuture, handles, waitResult, accessed, proxyVars, cursor >>

\* Listener l is registered on the store's request of call id.
Listening(id, l) == \E k \in 1..Len(listeners[id]) : listeners[id][k] = l

\* The request of an openCursor call or of a cursor step.
IsCursorRequest(r) == r.kind = "op" /\ r.behav \in {"open", "step"}

\* The success handlers of the step promises: resolve(e.target.result).
SettleSteps(futs, result) ==
  [k \in 1..Len(futs) |->
     IF futs[k].status = "pending" THEN ResolvedFuture(result) ELSE futs[k]]

\* The store completes an openCursor request, or a step of the cursor, and
\* fires success on the request that produced the cursor.
CursorDeliver ==
  /\ ~hostActive
  /\ hostPhase = "open"
  /\ requests # <<>>
  /\ ~MicrotasksPending
  /\ IsCursorRequest(Head(requests))
  /\ LET c == HandleOf(Head(requests).id)
         result == << cursor.pos + 1 >>
         subscribed(l) == Listening(c, l)
     IN /\ requests' = Tail(requests)
        /\ hostActive' = TRUE
        /\ handles' = Complete(handles, c, result, "none")
        /\ opFuture' = IF subscribed("resolve")
                       THEN FireEvent(opFuture, c, ResolvedFuture(result))
                       ELSE opFuture
        /\ cursor' = [cursor EXCEPT
                        !.pos = @ + 1,
                        !.futures = IF subscribed("step")
                                    THEN SettleSteps(@, result) ELSE @]
        \* e.target.removeEventListener('success', handler)
        /\ listeners' = [listeners EXCEPT ![c] = ApplySub(@, RemoveSub("step"))]
  /\ UNCHANGED << polyfillVars, promiseVars, hostPhase, hostError, hostScope, mode,
                  applied, opVars, abortCause, waitResult, accessed, bound,
                  _handlers, subLog >>

\* The store completes the oldest outstanding request and dispatches its
\* event with the transaction active.
HostDeliver ==
  /\ ~hostActive
  /\ hostPhase = "open"
  /\ requests # <<>>
  /\ ~MicrotasksPending
  /\ ~IsCursorRequest(Head(requests))
  /\ LET r == Head(requests)
         rest == Tail(requests)
     IN IF r.kind = "op" /\ r.behav = "fails"
        THEN \* error event, not prevented: the transaction aborts
             /\ HostAbort("ConstraintError", "request")
             /\ opFuture' = CancelFutures(
                  IF Listening(r.id, "reject")
                  THEN FireEvent(opFuture, r.id, RejectedFuture("ConstraintError"))
                  ELSE opFuture, rest)
             /\ handles' = CancelHandles(
                  Complete(handles, r.id, <<>>, "ConstraintError"), rest)
             /\ UNCHANGED << bound, _handlers, listeners >>
             /\ UNCHANGED << _queue, dispatched, hostActive >>
        ELSE IF r.kind = "spin"
        THEN \* onsuccess = spin
             LET s == Spin(_queue.jobs, rest, _state, TRUE)
             IN /\ _queue' = [_queue EXCEPT !.jobs = s.jobs]
                /\ dispatched' = dispatched \cup s.ids
                /\ bound' = BindProxies(bound, s.ids)
                /\ listeners' = ProvideListeners(listeners, _handlers, s.ids)
                /\ _handlers' = ProvideHandlers(_handlers, s.ids)
                /\ IF s.threw
                   THEN \* an exception thrown by the callback aborts
                        /\ HostAbort("AbortError", "exception")
                        /\ opFuture' = CancelFutures(Provide(opFuture, s.ids), s.reqs)
                        /\ handles' = CancelHandles(NewHandles(handles, s.ids), s.reqs)
                        /\ UNCHANGED hostActive
                   ELSE /\ requests' = s.reqs
                        /\ opFuture' = Provide(opFuture, s.ids)
                        /\ handles' = NewHandles(handles, s.ids)
                        /\ hostActive' = TRUE
                        /\ UNCHANGED << hostPhase, hostError, applied, abortCause >>
        ELSE /\ requests' = rest
             /\ applied' = IF r.kind = "op" THEN Append(applied, r.id) ELSE applied
             /\ opFuture' = IF r.kind = "op" /\ Listening(r.id, "resolve")
                            THEN FireEvent(opFuture, r.id, ResolvedFuture(applied))
                            ELSE opFuture
             /\ handles' = IF r.kind = "op"
                           THEN Complete(handles, r.id, applied, "none")
                           ELSE handles
             /\ UNCHANGED << bound, _handlers, listeners >>
             /\ hostActive' = TRUE
             /\ UNCHANGED << _queue, dispatched, hostPhase, hostError, abortCause >>
  /\ UNCHANGED << _state, _scope, _waitingPromise, _waitingIndex, _promise,
                  promiseVars, hostScope, mode, deferred, nextOp, waitResult, accessed, subLog, cursor >>

\* The 'complete' event: tx._state = 'finished'; resolve().
HostComplete ==
  /\ hostPhase = "committing"
  /\ ~hostActive
  /\ ~MicrotasksPending
  /\ hostPhase' = "committed"
  /\ IF Hooked
     THEN /\ _state' = "finished"
          /\ _promise' = [_promise EXCEPT !.status = "resolved", !.value = "undefined"]
     ELSE UNCHANGED << _state, _promise >>
  /\ UNCHANGED << _scope, _waitingPromise, _waitingIndex, _queue, promiseVars,
                  hostActive, hostError, hostScope, mode, requests, applied, opVars,
                  abortCause, opFuture, handles, waitResult, accessed, proxyVars, cursor >>

\* Variant of HostAbortEvent whose listener resolves the completion promise.
HostAbortEvent_Resolves ==
  /\ hostPhase = "aborting"
  /\ ~hostActive
  /\ ~MicrotasksPending
  /\ hostPhase' = "aborted"
  /\ _state' = "finished"
  /\ _promise' = [_promise EXCEPT !.status = "resolved", !.value = "undefined"]
  /\ UNCHANGED << _scope, _waitingPromise, _waitingIndex, _queue, promiseVars,
                  hostActive, hostError, hostScope, mode, requests, applied, opVars,
                  abortCause, opFuture, handles, waitResult, accessed, proxyVars, cursor >>

\* The 'abort' event: tx._state = 'finished'; reject(tx.error).
HostAbortEvent ==
  /\ hostPhase = "aborting"
  /\ ~hostActive
  /\ ~MicrotasksPending
  /\ hostPhase' = "aborted"
  /\ IF Hooked
     THEN /\ _state' = "finished"
          /\ _promise' = [_promise EXCEPT !.status = "rejected", !.value = hostError]
     ELSE UNCHANGED << _state, _promise >>
  /\ UNCHANGED << _scope, _waitingPromise, _waitingIndex, _queue, promiseVars,
                  hostActive, hostError, hostScope, mode, requests, applied, opVars,
                  abortCause, opFuture, handles, waitResult, accessed, proxyVars, cursor >>

\* ------------------------------------------------------------ specification
Awaitables == {"pending", "fulfilled"} \cup Reasons

UserWaitUntil == \E p \in Awaitables : WaitUntil(p)
UserIssueOp == \E b \in Behaviours : IssueOp(b)
AwaitableSettles ==
  \E i \in 1..MaxExtend : \E o \in {"fulfilled"} \cup Reasons : Settle(i, o)
Reactions == \E i \in 1..MaxExtend : RunReactions(i)

Next ==
  \/ UserWaitUntil
  \/ UserIssueOp
  \/ StateQuery
  \/ UserAbort
  \/ AccessPromise
  \/ AwaitableSettles
  \/ Reactions
  \/ EndTask
  \/ HostDeliver
  \/ HostComplete
  \/ HostAbortEvent

Spec == Init /\ [][Next]_vars

\* The event loop runs every queued microtask, ends every task, and the store
\* delivers every outstanding event.
Fairness ==
  /\ WF_vars(Reactions)
  /\ WF_vars(EndTask)
  /\ WF_vars(HostDeliver)
  /\ WF_vars(HostComplete)
  /\ WF_vars(HostAbortEvent)

\* The steps that bear on the progress of the transaction: all of Next but
\* the reads of tx.promise(), which change nothing of the transaction.
FairNext ==
  \/ UserWaitUntil
  \/ UserIssueOp
  \/ StateQuery
  \/ UserAbort
  \/ AwaitableSettles
  \/ Reactions
  \/ EndTask
  \/ HostDeliver
  \/ HostComplete
  \/ HostAbortEvent

FairSpec == Init /\ [][FairNext]_vars /\ Fairness

\* ------------------------------------------------------------ requests and cursors
\* The same transaction, followed with the requests of its calls: plain
\* calls, one cursor and its steps, and listeners added by the user.
RequestInit == Init /\ GetStoreOk

ExtendPending == WaitUntil("pending")
Fulfil == \E i \in 1..MaxExtend : Settle(i, "fulfilled")
PlainOp == \E b \in {"ok", "fails"} : IssueOp(b)
UserSubscribe ==
  \E id \in 1..MaxOps : \E sub \in {AddSub("user"), RemoveSub("user")} :
    Subscribe(id, sub)

RequestNext ==
  \/ ExtendPending
  \/ Fulfil
  \/ Reactions
  \/ PlainOp
  \/ OpenCursor
  \/ StepCursor
  \/ CursorReaction
  \/ CursorDeliver
  \/ EndTask
  \/ HostDeliver
  \/ HostComplete
  \/ HostAbortEvent

RequestSpec == RequestInit /\ [][RequestNext]_vars

\* The transaction extended by one waitUntil call, with plain calls only,
\* and the listeners the user adds to and removes from the requests returned.
ExtendOnce == _waitingIndex = 0 /\ WaitUntil("pending")

ProxyNext ==
  \/ ExtendOnce
  \/ Fulfil
  \/ Reactions
  \/ PlainOp
  \/ UserSubscribe
  \/ EndTask
  \/ HostDeliver
  \/ HostComplete
  \/ HostAbortEvent

ProxySpec == RequestInit /\ [][ProxyNext]_vars

\* ============================================================ properties
LiveComposite ==
  IF _waitingIndex = 0 THEN "none"
  ELSE Composite(supplied, chainedOn, _waitingIndex)

HasSpinProbe == \E k \in 1..Len(requests) : requests[k].kind = "spin"

\* C1: a transaction on which waitUntil is never called reports the states
\* active -> inactive -> committing -> finished (active and inactive may
\* alternate) and never waiting.
C1_NoExtendLifecycle ==
  [][ waitResult' = "none" =>
        /\ State' # "waiting"
        /\ State' # State =>
             << State, State' >> \in { << "active", "inactive" >>,
                                       << "inactive", "active" >>,
                                       << "inactive", "committing" >>,
                                       << "committing", "finished" >> } ]_vars

C3_RejectedExtend ==
  [][ (UserWaitUntil /\ State \in {"committing", "finished"}) =>
        /\ waitResult' = "InvalidStateError"
        /\ UNCHANGED << _state, _waitingIndex, _waitingPromise, _queue,
                        supplied, chainedOn, requests, hostPhase >> ]_vars

C3_Witness ==
  /\ waitResult = "InvalidStateError"
  /\ _state = "committing"
  /\ _waitingIndex = 1

\* The operations of the set ids were executed by the store in the order in
\* which they were issued.
InIssueOrder(ids) ==
  \A a, b \in 1..Len(applied) :
    (a < b /\ applied[a] \in ids /\ applied[b] \in ids) => applied[a] < applied[b]

\* C4: when the store reports the commit of a transaction whose live
\* composite awaitable fulfilled, the deferred queue is empty and every
\* deferred operation has been executed by the store, in submission order.
C4_DeferredAppliedAtCommit ==
  (hostPhase = "committed" /\ LiveComposite = "fulfilled") =>
    /\ _queue.jobs = <<>>
    /\ deferred \subseteq SeqRange(applied)
    /\ InIssueOrder(deferred)

C4_Witness ==
  /\ hostPhase = "committed"
  /\ LiveComposite = "fulfilled"
  /\ deferred = {1, 2}
  /\ applied = <<1, 2>>

\* C5: whenever the transaction is in the waiting state outside a callback
\* of the store, the store has not started to commit and a keep-alive probe
\* is outstanding on the transaction.
C5_KeepAlive ==
  (_state = "waiting" /\ ~hostActive /\ ~HostFinished) =>
    (hostPhase = "open" /\ HasSpinProbe)

\* Order of the phases of the reported state.
Rank(st) ==
  CASE st \in {"active", "inactive"} -> 0
    [] st = "waiting" -> 1
    [] st = "committing" -> 2
    [] st = "finished" -> 3

\* C6: the reported state of a transaction created by transaction() never
\* moves back to an earlier phase; finished is terminal.
C6_Monotonic == [][ Hooked => Rank(State') >= Rank(State) ]_vars

\* C7: once abort() has been called on the transaction its state never
\* enters committing, and the reactions to a settlement of the extension
\* awaitable leave the state as it is.
C7_AbortDirect ==
  [][ abortCause = "explicit" =>
        /\ _state' = "committing" => _state = "committing"
        /\ Reactions => UNCHANGED _state ]_vars

\* C8: when the live composite awaitable has rejected, the transaction is
\* never committing, neither in its state nor at the store, and once the
\* reactions of the live call have run the store has aborted it; the abort
\* event then leaves it finished.
C8_RejectionAborts ==
  (_waitingIndex > 0 /\ LiveComposite \in Reasons) =>
    /\ _state \in {"waiting", "finished"}
    /\ hostPhase \notin {"committing", "committed"}
    /\ handled[_waitingIndex] => hostPhase \in {"aborting", "aborted"}
    /\ hostPhase = "aborted" => _state = "finished"

C8_Witness ==
  /\ _waitingIndex > 0
  /\ LiveComposite \in Reasons
  /\ abortCause = "rejection"
  /\ _state = "finished"

\* C9 (as claimed): the completion promise of a transaction aborted by the
\* rejection of its extension awaitable is rejected with that awaitable's
\* rejection reason.
C9_ReasonCarried ==
  (abortCause = "rejection" /\ _promise.status = "rejected") =>
    _promise.value = LiveComposite

\* C9 (amended): the completion promise of a transaction aborted by the
\* rejection of its extension awaitable is rejected, once the abort event
\* is delivered, with tx.error, which is null after abort(): the
\* awaitable's rejection reason is not carried.
C9_RejectsWithTxError ==
  /\ (abortCause = "rejection" /\ hostPhase = "aborted") =>
       (_promise.status = "rejected" /\ _promise.value = "null")
  /\ _promise.value \notin Reasons

C9_Witness ==
  /\ abortCause = "rejection"
  /\ _promise.status = "rejected"
  /\ LiveComposite \in Reasons

\* C10: from the moment the live composite awaitable has rejected, no
\* operation is handed to the store and no job leaves the deferred queue;
\* what the store had executed is rolled back by the abort.
C10_DeferredDiscarded ==
  [][ (_waitingIndex > 0 /\ LiveComposite \in Reasons) =>
        /\ dispatched' = dispatched
        /\ Len(_queue'.jobs) >= Len(_queue.jobs)
        /\ applied' \in {applied, <<>>}
        /\ handled'[_waitingIndex] => applied' = <<>> ]_vars

C10_Witness ==
  /\ abortCause = "rejection"
  /\ _state = "finished"
  /\ Len(_queue.jobs) = 2
  /\ dispatched = {}

\* The latest waitUntil call was accepted: it registered its handlers and
\* returned a promise.
ExtendAccepted == waitResult = "waitingPromise"

\* C11: waitUntil called while the state is active, inactive or waiting does
\* not fail and leaves the state waiting.
C11_AcceptedStates ==
  [][ (UserWaitUntil /\ State \in {"active", "inactive", "waiting"}) =>
        (ExtendAccepted' /\ _state' = "waiting") ]_vars

\* C12: waitUntil called while the state is inactive, committing or finished
\* returns a promise rejected with InvalidStateError and does not put the
\* transaction into waiting.
C12_InactiveRejected ==
  [][ (UserWaitUntil /\ State \in {"inactive", "committing", "finished"}) =>
        (waitResult' = "InvalidStateError" /\ _state' = _state) ]_vars

\* The position at which the store executed operation id (0: not executed).
AppliedAt(id) ==
  IF \E k \in 1..Len(applied) : applied[k] = id
  THEN CHOOSE k \in 1..Len(applied) : applied[k] = id
  ELSE 0

\* request.result of operation id as the store computed it: a function of
\* the operations executed before it.
StoreResult(id) == SubSeq(applied, 1, AppliedAt(id) - 1)

C14_SettlesOnOutcome ==
  [][ _promise' # _promise =>
        /\ _promise.status = "pending"
        /\ \/ /\ _promise'.status = "resolved"
              /\ hostPhase = "committing" /\ hostPhase' = "committed"
              /\ State' = "finished"
           \/ /\ _promise'.status = "rejected"
              /\ hostPhase = "aborting" /\ hostPhase' = "aborted" ]_vars

C14_Witness ==
  /\ _promise.status = "resolved"
  /\ _waitingIndex = 2
  /\ applied # <<>>

\* C15: the promise returned by an accepted waitUntil is the transaction's
\* completion promise: it is pending, fulfilled or rejected exactly when the
\* completion promise is, whatever the supplied awaitable has done.
C15_ReturnsCompletion ==
  ExtendAccepted =>
    /\ (LiveComposite = "pending") <=> (_promise.status = "pending")
    /\ (LiveComposite = "fulfilled") <=> (_promise.status = "resolved")

Aborted == hostPhase \in {"aborting", "aborted"}

\* C17: while an extension is in effect and the live composite awaitable has
\* not settled, a transaction that is not aborted stays waiting: the state
\* is neither committing nor finished, and the store has not started to
\* commit it.
C17_StaysWaiting ==
  (_waitingIndex > 0 /\ LiveComposite = "pending" /\ ~Aborted) =>
    /\ _state = "waiting"
    /\ hostPhase = "open"
    /\ _promise.status = "pending"

C17_Witness ==
  /\ _waitingIndex = 1
  /\ LiveComposite = "pending"
  /\ ~Aborted
  /\ ~hostActive
  /\ applied = <<1, 2>>
  /\ deferred = {2}

C19_AnyRejectionAborts ==
  (/\ _state = "waiting"
   /\ \E i \in 1.._waitingIndex : supplied[i] \in Reasons
   /\ ~MicrotasksPending) => Aborted

\* C20: waitUntil on a transaction whose scope is empty fails in the call
\* itself: it throws, issues no request, and the store's handling of the
\* transaction goes on as without the call.
C20_EmptyScopeFails ==
  [][ (UserWaitUntil /\ GetStoreScope = <<>>) =>
        /\ waitResult' = "threw"
        /\ UNCHANGED << requests, hostActive, hostPhase, _waitingIndex,
                        _waitingPromise, supplied >> ]_vars

C20_Witness ==
  /\ GetStoreScope = <<>>
  /\ waitResult = "threw"
  /\ hostPhase = "committed"

JobIds(jobs) == { jobs[k].id : k \in 1..Len(jobs) }
JobRequests(jobs) == [k \in 1..Len(jobs) |-> OpRequest(jobs[k].id, jobs[k].behav)]

\* The step is the success callback of a keep-alive probe.
InSpinCallback ==
  /\ requests # <<>>
  /\ Head(requests).kind = "spin"
  /\ ~hostActive

\* C25: jobs leave the queue only in the success callback of a keep-alive
\* probe, from the front; the callback hands every queued operation to the
\* store once, in the order of submission, before it issues the next probe,
\* unless a job throws, which aborts the transaction.
C25_DrainFifo ==
  [][ _queue'.jobs # _queue.jobs =>
        \/ /\ UserIssueOp
           /\ SubSeq(_queue'.jobs, 1, Len(_queue.jobs)) = _queue.jobs
        \/ /\ InSpinCallback
           /\ \E n \in 1..Len(_queue.jobs) :
                LET gone == SubSeq(_queue.jobs, 1, n)
                IN /\ _queue'.jobs = SubSeq(_queue.jobs, n + 1, Len(_queue.jobs))
                   /\ JobIds(gone) \cap dispatched = {}
                   /\ Cardinality(JobIds(gone)) = n
                   /\ dispatched' \ dispatched \subseteq JobIds(gone)
                   /\ IF Aborted'
                      THEN gone[n].behav = "throws"
                      ELSE /\ _queue'.jobs = <<>>
                           /\ dispatched' = dispatched \cup JobIds(gone)
                           /\ requests' = Tail(requests) \o JobRequests(gone) \o
                                (IF _state = "waiting" THEN <<SpinRequest>> ELSE <<>>) ]_vars

C25_Witness ==
  /\ deferred = {1, 2}
  /\ dispatched = {1, 2}
  /\ _queue.jobs = <<>>
  /\ Len(requests) = 3
  /\ requests[1].id = 1 /\ requests[2].id = 2
  /\ requests[3] = SpinRequest

\* C26: a deferred operation is handed to the store, and a job leaves the
\* queue, only in the callback of a completing keep-alive request of a
\* transaction the store has neither started to commit nor finished; the
\* callback runs with the transaction active.
C26_DispatchWhileActive ==
  [][ (\/ (dispatched' \cap deferred') # (dispatched \cap deferred)
       \/ Len(_queue'.jobs) < Len(_queue.jobs)) =>
        /\ InSpinCallback
        /\ hostPhase = "open"
        /\ hostActive' \/ Aborted' ]_vars

C26_Witness ==
  /\ deferred = {2}
  /\ dispatched = {1, 2}
  /\ hostActive
  /\ hostPhase = "open"
  /\ _state = "committing"
  /\ Len(requests) = 1

\* C27: _waitingIndex never decreases; it grows by exactly one in an accepted
\* waitUntil call and is left unchanged by a call that is not accepted, by
\* the settlement handlers and by every other step.
C27_GenerationCounter ==
  [][ /\ _waitingIndex' >= _waitingIndex
      /\ (UserWaitUntil /\ ExtendAccepted') => _waitingIndex' = _waitingIndex + 1
      /\ (UserWaitUntil /\ ~ExtendAccepted') => _waitingIndex' = _waitingIndex
      /\ Reactions => _waitingIndex' = _waitingIndex
      /\ _waitingIndex' # _waitingIndex => UserWaitUntil ]_vars

C27_Witness ==
  /\ _waitingIndex = 2
  /\ handled[1] /\ handled[2]
  /\ waitResult = "InvalidStateError"
  /\ hostPhase = "aborted"

\* C24: reading result or error of a proxy whose job has not run throws
\* InvalidStateError; once the job has run the reads give what the store's
\* request gives: its result and error when it is done.
C24_ProxyReads ==
  \A id \in 1..MaxOps :
    HasProxy(id) =>
      IF id \in dispatched
      THEN /\ handles[id].readyState # "none"
           /\ ReadProxy(id) = ReadHandle(handles[id])
           /\ AppliedAt(id) > 0 => ReadProxy(id) = Values(StoreResult(id), "none")
      ELSE /\ handles[id] = NoHandle
           /\ ReadProxy(id) = NotReady

C24_Witness ==
  /\ HasProxy(1) /\ HasProxy(2)
  /\ ReadProxy(1) = Values(<<>>, "none")
  /\ 2 \notin dispatched
  /\ ReadProxy(2) = NotReady

\* C28: _provide is called at most once on a proxy, and the request a proxy
\* holds is never replaced.
C28_BoundOnce ==
  [][ \A id \in 1..MaxOps :
        /\ Len(bound'[id]) <= 1
        /\ bound[id] # <<>> => bound'[id] = bound[id]
        /\ bound'[id] # <<>> => (HasProxy(id) /\ id \in dispatched') ]_vars

C28_Witness ==
  /\ bound[1] = <<1>>
  /\ bound[2] = <<1>>
  /\ applied = <<1>>
  /\ HasSpinProbe

StepCalled ==
  /\ Len(cursor'.steps) = Len(cursor.steps) + 1
  /\ (HostAccepts \/ Deferring(State))

\* C23: every step of an opened cursor yields a promise of its own, and a
\* step that is dispatched sets the request that produced the cursor back to
\* pending.
C23_StepYieldsFuture ==
  [][ StepCalled =>
        /\ cursor'.steps[Len(cursor'.steps)] = "returned"
        /\ Len(cursor'.futures) = Len(cursor.futures) + 1
        /\ ~Deferring(State) => handles'[cursor.op].readyState = "pending" ]_vars

\* C30: a step is called directly when the transaction is not waiting and
\* queued when it is, and in both cases it is a step of the request that
\* produced the cursor.
C30_StepOnOriginHandle ==
  [][ StepCalled =>
        IF Deferring(State)
        THEN /\ Len(_queue'.jobs) = Len(_queue.jobs) + 1
             /\ _queue'.jobs[Len(_queue'.jobs)].behav = "step"
             /\ HandleOf(_queue'.jobs[Len(_queue'.jobs)].id) = cursor.op
        ELSE /\ requests' # <<>>
             /\ IsCursorRequest(requests'[Len(requests')])
             /\ HandleOf(requests'[Len(requests')].id) = cursor.op
             /\ handles'[cursor.op].readyState = "pending" ]_vars

\* What the promise built for a request holds once the request is done.
Outcome(h) ==
  IF h.error = "none" THEN ResolvedFuture(h.result) ELSE RejectedFuture(h.error)

\* The listeners a request has after the calls of subs, made one after the
\* other from the first to the last.
RECURSIVE InOrder(_)
InOrder(subs) ==
  IF subs = <<>> THEN <<>>
  ELSE ApplySub(InOrder(SubSeq(subs, 1, Len(subs) - 1)), subs[Len(subs)])

\* C29: the listener calls made on a proxy before it is given its request
\* are kept in the order made and none reaches a request; once the request
\* is given, the request's listeners are what all the calls made so far, in
\* order and each once, produce, nothing is left recorded, and the promise
\* built on the proxy settles with what the request completes with.
C29_ReplayInOrder ==
  \A id \in 1..MaxOps :
    subLog[id] # <<>> =>
      IF HasProxy(id) /\ ProxyRequest(id) = 0
      THEN /\ _handlers[id] = subLog[id]
           /\ listeners[id] = <<>>
           /\ opFuture[id].status = "queued"
      ELSE /\ _handlers[id] = <<>>
           /\ listeners[id] = InOrder(subLog[id])
           /\ handles[id].readyState = "done" => opFuture[id] = Outcome(handles[id])

C29_Witness ==
  /\ HasProxy(1) /\ ProxyRequest(1) # 0
  /\ listeners[1] = << "resolve", "reject", "user" >>
  /\ opFuture[1] = ResolvedFuture(<<>>)
  /\ HasProxy(2) /\ ProxyRequest(2) = 0
  /\ _handlers[2] = PromiseSubs \o << RemoveSub("user") >>

\* C31: the promise returned by a continue()/advance() call is pending
\* until the request that produced the cursor fires again, and then settles
\* with that event: resolved with the request's result on success, rejected
\* with the request's error on failure.
C31_StepFutureSettles ==
  [][ /\ StepCalled =>
           /\ Len(cursor'.futures) = Len(cursor'.steps)
           /\ cursor'.futures[Len(cursor'.futures)] = PendingFuture
      /\ \A k \in 1..Len(cursor.futures) :
           (cursor.futures[k].status = "pending"
              /\ handles[cursor.op].readyState = "pending"
              /\ handles'[cursor.op].readyState = "done")
             => cursor'.futures[k] = Outcome(handles'[cursor.op]) ]_vars

\* The reactions of the live waitUntil call run in this step on a rejected
\* composite, with the store's transaction no longer open.
LateRejection ==
  /\ _waitingIndex > 0
  /\ LiveComposite \in Reasons
  /\ handled'[_waitingIndex] /\ ~handled[_waitingIndex]
  /\ hostPhase # "open"

\* C32: when the live composite awaitable rejects with the transaction
\* already aborting, committing or finished, the abort() of the catch
\* handler throws and the exception is dropped: the state, the transaction's
\* promise, the store's transaction, the queue and the request promises are
\* all left as they were.
C32_LateAbortSwallowed ==
  [][ LateRejection =>
        UNCHANGED << _state, _promise, _queue, _waitingIndex, _waitingPromise,
                     hostPhase, hostError, requests, applied, abortCause,
                     opFuture, handles, waitResult >> ]_vars

C32_Witness ==
  /\ _waitingIndex > 0
  /\ LiveComposite \in Reasons
  /\ handled[_waitingIndex]
  /\ abortCause = "explicit"
  /\ hostError = "null"
  /\ _state = "finished"

\* C33: for a transaction opened by transaction() on a non-empty scope, given
\* as one name or as an array of names, tx._scope is the list of the names
\* of the scope and its first element, the store used by the state probe and
\* by the keep-alive probes, is an object store of the scope.
C33_ScopeRecorded ==
  (Hooked /\ hostScope # {}) =>
    /\ Len(_scope) = Cardinality(hostScope)
    /\ SeqRange(_scope) = hostScope
    /\ GetStoreScope[1] \in hostScope

\* The calls the store has still to execute, in the order it will.
OutstandingOps ==
  LET ops == { k \in 1..Len(requests) : requests[k].kind = "op" }
  IN [n \in 1..Cardinality(ops) |->
        requests[CHOOSE k \in ops : Cardinality({ j \in ops : j <= k }) = n].id]

\* Calls are numbered in the order in which they are made.
Ascending(ids) == \A a, b \in 1..Len(ids) : a < b => ids[a] < ids[b]

\* C34: the store executes the calls made on the transaction in the order in
\* which they were made, whether a call went to the store directly or through
\* the queue: no call is at the store while a call made before it is still
\* queued, and the calls executed and to be executed are in call order.
C34_IssueOrder ==
  /\ Ascending(applied \o OutstandingOps)
  /\ \A k \in 1..Len(_queue.jobs) :
       \A id \in dispatched : id < _queue.jobs[k].id

\* The keep-alive probes outstanding at the store.
SpinProbes == { k \in 1..Len(requests) : requests[k].kind = "spin" }

\* C35: at most one keep-alive probe is outstanding at any time; only a
\* waitUntil call on a transaction that has never been waiting starts the
\* spinner, and the state never returns to where it could be started again;
\* a waitUntil call made while waiting adds no probe and leaves the queue
\* and its jobs as they are.
C35_OneSpinner ==
  [][ /\ Cardinality(SpinProbes') <= 1
      /\ (UserWaitUntil /\ Cardinality(SpinProbes') > Cardinality(SpinProbes))
           => (_state = "maybeActive" /\ _waitingIndex = 0 /\ _queue.isNull)
      /\ _state # "maybeActive" => _state' # "maybeActive"
      /\ (UserWaitUntil /\ _state = "waiting")
           => (_queue' = _queue /\ SpinProbes' = SpinProbes) ]_vars

C35_Witness ==
  /\ _waitingIndex = 2
  /\ _state = "waiting"
  /\ Len(_queue.jobs) = 2
  /\ Cardinality(SpinProbes) = 1

\* C36: a waitUntil call that throws, because getStore finds no store or
\* because the first keep-alive probe cannot be issued, leaves the
\* transaction as it was: the state is not set to waiting and no queue is
\* installed, so later calls are not deferred.
C36_FailedExtendNoEffect ==
  [][ (UserWaitUntil /\ waitResult' = "threw")
        => (_state' = _state /\ _queue' = _queue) ]_vars

\* C37: while the state is waiting, the callback of every completing
\* keep-alive probe hands all queued operations to the store and issues the
\* next probe, also when one of the queued operations raises an error.
C37_SpinSurvivesErrors ==
  [][ (InSpinCallback /\ HostDeliver /\ _state = "waiting")
        => /\ _queue'.jobs = <<>>
           /\ JobIds(_queue.jobs) \ { _queue.jobs[k].id : k \in { j \in 1..Len(_queue.jobs) : _queue.jobs[j].behav = "throws" } }
                \subseteq dispatched'
           /\ HasSpinProbe' ]_vars

\* Every call made on the transaction has a settled promise.
AllSettled ==
  \A id \in 1..MaxOps :
    opFuture[id].status \in {"none", "resolved", "rejected"}

\* C38: once the transaction is finished, the promise of every call made on
\* it is settled or becomes settled; a call that was queued and dropped
\* because the transaction aborted gets its promise rejected.
C38_FinishedSettlesAll == [](_state = "finished" => <>AllSettled)

\* C39: reading tx.state changes nothing: not the state, the generation,
\* the composite, the queue, nor the requests outstanding at the store.
C39_StateQueryPure ==
  [][ StateQuery =>
        UNCHANGED << _state, _waitingIndex, _waitingPromise, supplied, chainedOn,
                     _queue, requests >> ]_vars

====
